---- MODULE Spec2Model ----
(***************************************************************************)
(* A model of enterprise_extensions/frequentist/Fe_statistic.py: the       *)
(* FeStat class (its lazily built per-pulsar Nmat cache and compute_Fe)    *)
(* and the module functions innerProduct_rr and make_Nmat.                 *)
(*                                                                         *)
(* Numbers are exact rationals [n, d] in lowest terms (d > 0); the record  *)
(* with d = 0 stands for a non-finite float (NaN or +-Inf).  Arrays are    *)
(* sequences, matrices sequences of rows.  Times are counted in quarters   *)
(* of the time unit, so that for an integer frequency f0 the phase         *)
(* 2*pi*f0*t is a whole number of quarter turns and sin and cos are exact. *)
(* Every pulsar's basis matrix has two columns, so Sigma is 2 x 2.         *)
(***************************************************************************)
EXTENDS Integers, Sequences, FiniteSets, TLC

VARIABLES psrs, params, Nmats, call, ip

vars == <<psrs, params, Nmats, call, ip>>

\* ---------------------------------------------------------------- bounds
\* Largest number of pulsars in the array.
MaxPsr == 2
\* Number of TOAs of each pulsar.
NToa == 2
\* Largest number of columns of a 2 x K sky grid.
MaxSky == 2

\* ------------------------------------------------------------- rationals
RECURSIVE GCD(_, _)
GCD(a, b) == IF b = 0 THEN a ELSE GCD(b, a % b)

Abs(a) == IF a < 0 THEN -a ELSE a

\* A non-finite float.
NF == [n |-> 0, d |-> 0]

Norm(n, d) ==
    LET g == GCD(Abs(n), Abs(d))
        s == IF d < 0 THEN -1 ELSE 1
    IN  [n |-> s * (n \div g), d |-> s * (d \div g)]

R(i) == [n |-> i, d |-> 1]

IsFinite(a) == a.d # 0

RAdd(a, b) ==
    IF a.d = 0 \/ b.d = 0 THEN NF
    ELSE IF a.n = 0 THEN b
    ELSE IF b.n = 0 THEN a
    ELSE IF a.d = 1 /\ b.d = 1 THEN [n |-> a.n + b.n, d |-> 1]
    ELSE LET g == GCD(a.d, b.d)
         IN  Norm(a.n * (b.d \div g) + b.n * (a.d \div g), (a.d \div g) * b.d)
RNeg(a) == IF a.d = 0 THEN NF ELSE [n |-> -a.n, d |-> a.d]
RSub(a, b) == RAdd(a, RNeg(b))
RMul(a, b) ==
    IF a.d = 0 \/ b.d = 0 THEN NF
    ELSE IF a.n = 0 \/ b.n = 0 THEN [n |-> 0, d |-> 1]
    ELSE IF a.d = 1 /\ b.d = 1 THEN [n |-> a.n * b.n, d |-> 1]
    ELSE LET g1 == GCD(Abs(a.n), b.d)
             g2 == GCD(Abs(b.n), a.d)
         IN  [n |-> (a.n \div g1) * (b.n \div g2),
              d |-> (a.d \div g2) * (b.d \div g1)]
\* A float division by zero gives Inf or NaN.
RDiv(a, b) == IF a.d = 0 \/ b.d = 0 \/ b.n = 0 THEN NF
              ELSE Norm(a.n * b.d, a.d * b.n)
RPos(a) == a.d # 0 /\ a.n > 0

\* ------------------------------------------------------ vectors, matrices
RECURSIVE Arr(_, _)
\* The array f[1], ..., f[n], each element computed once.
Arr(f, n) == IF n = 0 THEN <<>> ELSE Append(Arr(f, n - 1), f[n])

RECURSIVE SumTo(_, _)
\* The sum of the rationals f[1] .. f[k].
SumTo(f, k) == IF k = 0 THEN R(0) ELSE RAdd(SumTo(f, k - 1), f[k])

\* np.dot of two 1-D arrays of the same length.
Dot(u, v) == SumTo([i \in 1..Len(u) |-> RMul(u[i], v[i])], Len(u))

NRows(M) == Len(M)
NCols(M) == IF Len(M) = 0 THEN 0 ELSE Len(M[1])

\* np.dot(M, v): matrix times vector.
MatVec(M, v) == Arr([i \in 1..NRows(M) |-> Dot(M[i], v)], NRows(M))
\* np.dot(v, M): vector times matrix.
VecMat(v, M) ==
    Arr([j \in 1..NCols(M) |->
            SumTo([i \in 1..Len(v) |-> RMul(v[i], M[i][j])], Len(v))],
        NCols(M))
\* M.T
Transpose(M) ==
    Arr([j \in 1..NCols(M) |-> Arr([i \in 1..NRows(M) |-> M[i][j]], NRows(M))],
        NCols(M))
\* np.dot(A, B): matrix times matrix.
MatMul(A, B) ==
    Arr([i \in 1..NRows(A) |-> Arr([j \in 1..NCols(B) |->
            SumTo([k \in 1..NCols(A) |-> RMul(A[i][k], B[k][j])], NCols(A))],
        NCols(B))], NRows(A))
MatAdd(A, B) ==
    Arr([i \in 1..NRows(A) |->
            Arr([j \in 1..NCols(A) |-> RAdd(A[i][j], B[i][j])], NCols(A))],
        NRows(A))
MatSub(A, B) ==
    Arr([i \in 1..NRows(A) |->
            Arr([j \in 1..NCols(A) |-> RSub(A[i][j], B[i][j])], NCols(A))],
        NRows(A))
\* np.eye(k)
Eye(k) ==
    Arr([i \in 1..k |-> Arr([j \in 1..k |-> IF i = j THEN R(1) ELSE R(0)], k)],
        k)
\* np.diag(v) of a 1-D array.
Diag(v) ==
    Arr([i \in 1..Len(v) |->
            Arr([j \in 1..Len(v) |-> IF i = j THEN v[i] ELSE R(0)], Len(v))],
        Len(v))

FiniteVec(v) == \A i \in 1..Len(v) : IsFinite(v[i])
FiniteMat(M) == \A i \in 1..NRows(M) : FiniteVec(M[i])
IsSymmetric(M) ==
    /\ NRows(M) = NCols(M)
    /\ \A i, j \in 1..NRows(M) : M[i][j] = M[j][i]

\* ------------------------------------------------- scipy.linalg Cholesky
\* What LAPACK may do with a non-finite matrix that was not checked
\* (check_finite=False): report a failed factorization, or go on and carry
\* the non-finite values into the result.
LapackOutcomes == {"LinAlgError", "silent"}

\* sl.cho_factor(Sigma, check_finite=...): "ok", or how it fails.  Only the
\* upper triangle is read (lower=False).
cho_factor(Sigma, check_finite, lapack) ==
    LET a == Sigma[1][1]
        b == Sigma[1][2]
        d == Sigma[2][2]
    IN  IF check_finite /\ ~FiniteMat(Sigma) THEN "ValueError"
        ELSE IF NRows(Sigma) # NCols(Sigma) THEN "ValueError"
        ELSE IF ~(IsFinite(a) /\ IsFinite(b) /\ IsFinite(d)) THEN lapack
        ELSE IF RPos(a) /\ RPos(RSub(RMul(a, d), RMul(b, b))) THEN "ok"
        ELSE "LinAlgError"

\* sl.cho_solve(cf, v) for a 1-D v: the solution of S z = v, where S is the
\* symmetric matrix whose upper triangle cho_factor read.
cho_solve(Sigma, v) ==
    LET a == Sigma[1][1]
        b == Sigma[1][2]
        d == Sigma[2][2]
        det == RSub(RMul(a, d), RMul(b, b))
    IN  << RDiv(RSub(RMul(d, v[1]), RMul(b, v[2])), det),
           RDiv(RSub(RMul(a, v[2]), RMul(b, v[1])), det) >>

\* sl.cho_solve(cf, B) for a 2-D B: column by column.
cho_solve_mat(Sigma, B) ==
    Transpose(Arr([j \in 1..NCols(B) |->
                      cho_solve(Sigma, <<B[1][j], B[2][j]>>)], NCols(B)))

\* ----------------------------------------------------- innerProduct_rr
InnerFail(e, c) == [err |-> e, ret |-> NF, cho |-> c]

WhiteTerm_xx(x, y, Ni) == Dot(VecMat(x, Ni), x)
\* xNy = np.dot(np.dot(x, Ni), y)
WhiteTerm(x, y, Ni) == Dot(VecMat(x, Ni), y)

\* np.dot(Tmat.T, np.dot(Ni, x))
TNof(Tmat, Ni, x) == MatVec(Transpose(Tmat), MatVec(Ni, x))

LowRankTerm_xx(TNx, TNy, Sigma) == Dot(TNx, cho_solve(Sigma, TNx))
\* np.dot(TNx, SigmaTNy), where SigmaTNy = sl.cho_solve(cf, TNy)
LowRankTerm(TNx, TNy, Sigma) == Dot(TNx, cho_solve(Sigma, TNy))

\* innerProduct_rr(x, y, Nmat, Tmat, Sigma, brave=brave) with TNx and TNy
\* left at None.  cho counts the factorizations it attempted.
innerProduct_rr(x, y, Nmat, Tmat, Sigma, brave, lapack) ==
    LET Ni == Nmat
        shapes == /\ Len(x) = NRows(Ni)
                  /\ NCols(Ni) = Len(y)
                  /\ NCols(Ni) = Len(x)
                  /\ NRows(Tmat) = NRows(Ni)
        xNy == WhiteTerm(x, y, Ni)
        TNx == TNof(Tmat, Ni, x)
        TNy == TNof(Tmat, Ni, y)
        cf == cho_factor(Sigma, ~brave, lapack)
    IN  IF ~shapes THEN InnerFail("ValueError", 0)
        ELSE IF cf \in {"ValueError", "LinAlgError"} THEN InnerFail(cf, 1)
        ELSE [err |-> "none",
              ret |-> RSub(xNy, LowRankTerm(TNx, TNy, Sigma)), cho |-> 1]

\* ------------------------------------------------------------ make_Nmat
\* Nvec.solve(other, left_array=left): left^T N^{-1} other for the diagonal
\* white-noise matrix N = diag(Nvec).
NvecSolve(Nvec, other, left) ==
    MatMul(Transpose(left),
           Arr([i \in 1..NRows(other) |-> Arr([j \in 1..NCols(other) |->
                   RDiv(other[i][j], Nvec[i])], NCols(other))],
               NRows(other)))

\* TNT + (np.diag(phiinv) if phiinv.ndim == 1 else phiinv)
SigmaOf(TNT, phiinv) ==
    MatAdd(TNT, IF phiinv.ndim = 1 THEN Diag(phiinv.v) ELSE phiinv.v)

\* make_Nmat(phiinv, TNT, Nvec, T): the marginalized noise matrix, or the
\* error of its (always checked) factorization.
make_Nmat(phiinv, TNT, Nvec, T) ==
    LET Sigma == SigmaOf(TNT, phiinv)
        cf == cho_factor(Sigma, TRUE, "LinAlgError")
        Nshape == NRows(T)
        TtN == NvecSolve(Nvec, Eye(Nshape), T)
        Ndiag == NvecSolve(Nvec, Eye(Nshape), Eye(Nshape))
        expval2 == cho_solve_mat(Sigma, TtN)
    IN  IF cf # "ok" THEN [err |-> cf, Nmat |-> <<>>]
        ELSE [err |-> "none",
              Nmat |-> MatSub(Ndiag, MatMul(Transpose(TtN), expval2))]

\* ------------------------------------------- the model collaborator (pta)
\* The noise models a pulsar can have under the noise dictionary:
\*   "diag"      unit white noise, a 1-D phiinv;
\*   "dense"     unit white noise, a dense phiinv;
\*   "notpd"     a phiinv that leaves Sigma not positive definite;
\*   "nonfinite" a phiinv holding a non-finite value.
NoiseKinds == {"diag", "dense", "notpd", "nonfinite"}

\* pta.get_ndiag(params): the white-noise variance of each TOA.
pta_get_ndiag(psr, kind) ==
    Arr([i \in 1..Len(psr.toas) |-> R(1)], Len(psr.toas))

\* pta.get_basis(params): one row per TOA and a column for each of two
\* epochs, the pulsar's first TOA and its second.
pta_get_basis(psr) ==
    Arr([i \in 1..Len(psr.toas) |->
            <<R(IF i = 1 THEN 1 ELSE 0), R(IF i = 2 THEN 1 ELSE 0)>>],
        Len(psr.toas))

\* pta.get_TNT(params): T^T N^{-1} T.
pta_get_TNT(psr, kind) ==
    NvecSolve(pta_get_ndiag(psr, kind), pta_get_basis(psr), pta_get_basis(psr))

\* pta.get_phiinv(params, logdet=False): 1-D (a diagonal) or dense.
pta_get_phiinv(kind) ==
    CASE kind = "diag" -> [ndim |-> 1, v |-> <<R(1), R(1)>>]
      [] kind = "dense" ->
            [ndim |-> 2, v |-> << <<R(1), R(1)>>, <<R(1), R(1)>> >>]
      [] kind = "notpd" -> [ndim |-> 1, v |-> <<R(-10), R(1)>>]
      [] kind = "nonfinite" -> [ndim |-> 1, v |-> <<NF, R(1)>>]

\* ------------------------------------------------------------ get_Nmats
RECURSIVE FirstIn(_, _, _)
\* The least k in lo..hi with bad[k], or hi + 1.
FirstIn(bad, lo, hi) ==
    IF lo > hi THEN hi + 1
    ELSE IF bad[lo] THEN lo ELSE FirstIn(bad, lo + 1, hi)

\* The list comprehension of line 40 over the make_Nmat outcomes made, in
\* order: the first failure ends it.  Nmats is what was built before that,
\* nMake the number of make_Nmat calls made.
UpToFirstError(made) ==
    LET n == Len(made)
        bad == [k \in 1..n |-> made[k].err # "none"]
        stop == FirstIn(bad, 1, n)
    IN  IF stop > n
        THEN [err |-> "none",
              Nmats |-> Arr([k \in 1..n |-> made[k].Nmat], n),
              nMake |-> n]
        ELSE [err |-> made[stop].err,
              Nmats |-> Arr([k \in 1..n |-> made[k].Nmat], stop - 1),
              nMake |-> stop]

\* FeStat.get_Nmats: make_Nmat for each pulsar in order.
get_Nmats(ps, pars) ==
    UpToFirstError(Arr([k \in 1..Len(ps) |->
                           make_Nmat(pta_get_phiinv(pars[k]),
                                     pta_get_TNT(ps[k], pars[k]),
                                     pta_get_ndiag(ps[k], pars[k]),
                                     pta_get_basis(ps[k]))], Len(ps)))

\* ------------------------------------------------------ the Nmat cache
\* self.Nmats: None, or the list get_Nmats returned.
NoNmats == [isNone |-> TRUE, list |-> <<>>]
SomeNmats(l) == [isNone |-> FALSE, list |-> l]

NeedsBuild_always(cur) == TRUE
\* if self.Nmats == None
NeedsBuild(cur) == cur.isNone

StoreNmats_partial(cur, b) == SomeNmats(b.Nmats)
\* self.Nmats = self.get_Nmats(): assigned only when get_Nmats returns.
StoreNmats(cur, b) == IF b.err = "none" THEN SomeNmats(b.Nmats) ELSE cur

CacheAfter_extend(cur, b) ==
    IF cur.isNone THEN StoreNmats(cur, b)
    ELSE SomeNmats(cur.list \o b.Nmats)
\* self.Nmats after lines 58-60.
CacheAfter(cur, b) == IF NeedsBuild(cur) THEN StoreNmats(cur, b) ELSE cur

\* ----------------------------------------------------- signal templates
\* sin and cos of k quarter turns.
SinQ(k) == CASE k % 4 = 0 -> 0 [] k % 4 = 1 -> 1 [] k % 4 = 2 -> 0
             [] k % 4 = 3 -> -1
CosQ(k) == SinQ(k + 1)

\* f0 ** (1 / 3) for a cube f0.
CubeRoot(f) == CHOOSE r \in 1..f : r * r * r = f

\* The GW frequencies handed to compute_Fe.
Freqs == {1, 27}

\* The 4 x ntoa array A of lines 74-78; toas count quarter time units.
SignalBasis(f0, toas) ==
    LET scale == RDiv(R(1), R(CubeRoot(f0)))
        sinrow == Arr([i \in 1..Len(toas) |->
                          RMul(scale, R(SinQ(f0 * toas[i])))], Len(toas))
        cosrow == Arr([i \in 1..Len(toas) |->
                          RMul(scale, R(CosQ(f0 * toas[i])))], Len(toas))
    IN  <<sinrow, cosrow, sinrow, cosrow>>

ResidualVec(psr) ==
    Arr([i \in 1..Len(psr.residuals) |-> R(psr.residuals[i])],
        Len(psr.residuals))

\* ------------------------------------- compute_Fe: the loop over pulsars
Zero4 == <<R(0), R(0), R(0), R(0)>>
Zero44 == <<Zero4, Zero4, Zero4, Zero4>>

\* The row of A (1-based) whose product with the residuals is entry i of
\* N[idx] (ip1 .. ip4 of lines 80-85).
NRowOf(i) == <<1, 2, 3, 3>>[i]

RECURSIVE ChoUpTo(_, _)
\* The factorizations attempted by the first k of the products in all.
ChoUpTo(all, k) == IF k = 0 THEN 0 ELSE ChoUpTo(all, k - 1) + all[k].cho

\* The 20 inner products of one pulsar in the order of lines 80-90, ipN
\* those with the residuals and ipM those of the template rows: the
\* pulsar's N and M, or the first error, and the number of factorizations
\* attempted.
InOrder(ipN, ipM) ==
    LET all == Arr([i \in 1..20 |->
                      IF i <= 4 THEN ipN[i]
                      ELSE ipM[((i - 5) \div 4) + 1][((i - 5) % 4) + 1]], 20)
        bad == [i \in 1..20 |-> all[i].err # "none"]
        stop == FirstIn(bad, 1, 20)
    IN  IF stop > 20
        THEN [err |-> "none",
              N |-> Arr([i \in 1..4 |-> ipN[i].ret], 4),
              M |-> Arr([jj \in 1..4 |->
                           Arr([kk \in 1..4 |-> ipM[jj][kk].ret], 4)], 4),
              cho |-> ChoUpTo(all, 20)]
        ELSE [err |-> all[stop].err, N |-> Zero4, M |-> Zero44,
              cho |-> ChoUpTo(all, stop)]

\* The inner products of lines 80-83, with the residuals res.
ProductsN(A, res, Nmat, T, Sigma, brave, lapack) ==
    Arr([i \in 1..4 |->
            innerProduct_rr(A[NRowOf(i)], res, Nmat, T, Sigma, brave, lapack)],
        4)

\* The inner products of lines 88-90, M_ij = (A_i|A_j).
ProductsM(A, Nmat, T, Sigma, brave, lapack) ==
    Arr([jj \in 1..4 |-> Arr([kk \in 1..4 |->
            innerProduct_rr(A[jj], A[kk], Nmat, T, Sigma, brave, lapack)],
        4)], 4)

\* The loop body of lines 69-90 for the template rows A and Sigma.
LoopBody(A, res, Nmat, T, Sigma, brave, lapack) ==
    InOrder(ProductsN(A, res, Nmat, T, Sigma, brave, lapack),
            ProductsM(A, Nmat, T, Sigma, brave, lapack))

\* One iteration of the loop of lines 66-90.
PulsarProducts(psr, Nmat, TNT, phiinv, T, f0, brave, lapack) ==
    LoopBody(SignalBasis(f0, psr.toas), ResidualVec(psr), Nmat, T,
             SigmaOf(TNT, phiinv), brave, lapack)

\* PulsarProducts of pulsar psr with noise model kind, tabulated once over
\* the arguments compute_Fe can hand it.
ProductsAt(key) ==
    PulsarProducts(key.psr, key.Nmat, pta_get_TNT(key.psr, key.kind),
                   pta_get_phiinv(key.kind), pta_get_basis(key.psr),
                   key.f0, key.brave, key.lapack)

\* --------------------------------------- the antenna-pattern collaborator
Dot3(u, v) ==
    RAdd(RAdd(RMul(u[1], v[1]), RMul(u[2], v[2])), RMul(u[3], v[3]))

\* F_plus and F_cross from m.pos, n.pos and 1 + omhat.pos.
PatternOf(mp, np, den) ==
    [F_p |-> RDiv(RMul([n |-> 1, d |-> 2],
                       RSub(RMul(mp, mp), RMul(np, np))), den),
     F_c |-> RDiv(RMul(mp, np), den)]

\* utils.create_gw_antenna_pattern(pos, gwtheta, gwphi): (F_plus, F_cross);
\* the angles count quarter turns.
create_gw_antenna_pattern(pos, gwtheta, gwphi) ==
    LET st == SinQ(gwtheta)
        ct == CosQ(gwtheta)
        sp == SinQ(gwphi)
        cp == CosQ(gwphi)
        m == <<R(sp), R(-cp), R(0)>>
        n == <<R(-ct * cp), R(-ct * sp), R(st)>>
        omhat == <<R(-st * cp), R(-st * sp), R(-ct)>>
    IN  PatternOf(Dot3(m, pos), Dot3(n, pos), RAdd(R(1), Dot3(omhat, pos)))

\* ----------------------------------- compute_Fe: the loop over the sky
\* [F_p, F_p, F_c, F_c] of pulsar psr for the sky position gw_pos.
FourOf(F) == <<F.F_p, F.F_p, F.F_c, F.F_c>>
PatternVec(psr, gw_pos) ==
    FourOf(create_gw_antenna_pattern(psr.pos, gw_pos[1], gw_pos[2]))

\* One pulsar's row of NN and block of MM, scaled by the pattern vector F.
ScaleRow(row, F) == Arr([i \in 1..4 |-> RMul(row[i], F[i])], 4)
ScaleBlock(block, F) ==
    Arr([i \in 1..4 |->
            Arr([j \in 1..4 |-> RMul(block[i][j], RMul(F[i], F[j]))], 4)], 4)

\* NN[idx, :] *= [F_p, F_p, F_c, F_c] for every pulsar (line 98).
ScaleN(NN, ps, gw_pos) ==
    Arr([idx \in 1..Len(ps) |->
            ScaleRow(NN[idx], PatternVec(ps[idx], gw_pos))], Len(ps))

\* MM[idx, :, :] *= the outer product of the pattern vector (lines 99-102).
ScaleM(MM, ps, gw_pos) ==
    Arr([idx \in 1..Len(ps) |->
            ScaleBlock(MM[idx], PatternVec(ps[idx], gw_pos))], Len(ps))

\* np.sum(NN, axis=0) and np.sum(MM, axis=0).
SumN(NN) ==
    Arr([i \in 1..4 |-> SumTo([idx \in 1..Len(NN) |-> NN[idx][i]], Len(NN))],
        4)
SumM(MM) ==
    Arr([i \in 1..4 |-> Arr([j \in 1..4 |->
            SumTo([idx \in 1..Len(MM) |-> MM[idx][i][j]], Len(MM))], 4)], 4)

\* np.linalg.pinv(M_sum), kept as a term.
pinv(M_sum) == [pinv_of |-> M_sum]

\* 0.5 * np.dot(N_sum, np.dot(Minv, N_sum)), kept as a term.
HalfQuadForm(N_sum, Minv) == [half_quad |-> N_sum, Minv |-> Minv]

\* The term is the number 0: a quadratic form of a finite matrix at the
\* zero vector.
FeIsZero(v) ==
    /\ FiniteMat(v.Minv.pinv_of)
    /\ \A i \in 1..4 : v.half_quad[i] = R(0)

KeptAfterScaling_alias(orig, scaled) == scaled
\* NN = np.copy(N): what N holds after NN was scaled in place (lines 94-102).
KeptAfterScaling(orig, scaled) == orig

RECURSIVE SkyLoop(_, _, _, _, _)
\* Lines 105-109 of iteration j, for the scaled NN and MM, and the
\* iterations after it.
SkyStep(N, M, ps, cols, j, NN, MM) ==
    <<HalfQuadForm(SumN(NN), pinv(SumM(MM)))>>
    \o SkyLoop(KeptAfterScaling(N, NN), KeptAfterScaling(M, MM), ps, cols,
               j + 1)

\* The loop of lines 93-109 from column j on: fstat[j], fstat[j+1], ...
SkyLoop(N, M, ps, cols, j) ==
    IF j > Len(cols) THEN <<>>
    ELSE SkyStep(N, M, ps, cols, j,
                 ScaleN(N, ps, cols[j]), ScaleM(M, ps, cols[j]))

\* ------------------------------------------------------------ the inputs
\* Pulsar positions: unit vectors.
PosA == <<R(0), [n |-> 3, d |-> 5], [n |-> 4, d |-> 5]>>
PosB == <<[n |-> 3, d |-> 5], R(0), [n |-> 4, d |-> 5]>>

\* The residual series of the pulsars of an array: all zero, or a ramp.
BaseResiduals == {[i \in 1..NToa |-> 0], [i \in 1..NToa |-> i]}
\* A residual series one sample shorter than the TOAs.
ShortResiduals == [i \in 1..(NToa - 1) |-> 1]

\* How one pulsar of the array differs from the others: not at all, by
\* residuals shorter than its TOAs, or by its noise model.
Deviations == {"none", "short"} \cup (NoiseKinds \ {"diag"})

\* Pulsar k of an array: NToa TOAs a quarter time unit apart.
Pulsar(k, res) ==
    [toas |-> [i \in 1..NToa |-> (k - 1) + (i - 1)],
     residuals |-> res,
     pos |-> IF k % 2 = 1 THEN PosA ELSE PosB]

\* Sky positions [theta, phi], in quarter turns.
SkyPoints == {<<1, 0>>, <<1, 1>>}

RECURSIVE SkyLists(_)
SkyLists(K) ==
    IF K = 0 THEN {<<>>}
    ELSE {Append(l, s) : l \in SkyLists(K - 1), s \in SkyPoints}

\* gw_skyloc as a 2 x K array.
Grid(l) ==
    [shape |-> <<2, Len(l)>>,
     data |-> << [j \in 1..Len(l) |-> l[j][1]], [j \in 1..Len(l) |-> l[j][2]] >>]
\* gw_skyloc as the 1-D array [theta, phi].
Pair(s) == [shape |-> <<2>>, data |-> s]

SkyLocs ==
    {Grid(l) : l \in UNION {SkyLists(K) : K \in 0..MaxSky}}
    \cup {Pair(<<1, 0>>)}

\* Every pulsar an array can hold.
AllPulsars ==
    {Pulsar(k, res) : k \in 1..MaxPsr,
                      res \in BaseResiduals \cup {ShortResiduals}}

\* The arguments of PulsarProducts: a pulsar, its noise model and the Nmat
\* make_Nmat builds for them, a frequency, brave, and LAPACK's way.
ProductKeys ==
    {[psr |-> p, kind |-> kd, f0 |-> f, brave |-> br, lapack |-> lp,
      Nmat |-> make_Nmat(pta_get_phiinv(kd), pta_get_TNT(p, kd),
                         pta_get_ndiag(p, kd), pta_get_basis(p)).Nmat] :
        p \in AllPulsars, kd \in {"diag", "dense"}, f \in Freqs,
        br \in BOOLEAN, lp \in LapackOutcomes}

ProductsTable == [key \in ProductKeys |-> ProductsAt(key)] @@ <<>>


\* ------------------------------------------------------------ compute_Fe
Min(a, b) == IF a < b THEN a ELSE b

\* gw_skyloc.T of a 2 x K array: the K sky positions [theta, phi].
Columns(gw) ==
    Arr([j \in 1..gw.shape[2] |-> <<gw.data[1][j], gw.data[2][j]>>],
        gw.shape[2])

Failed(e, cache, nMake, nCho) ==
    [err |-> e, fstat |-> <<>>, N |-> <<>>, M |-> <<>>,
     nMake |-> nMake, nCho |-> nCho, Nmats |-> cache]

\* Lines 92-111, after the loop over the pulsars gave prods.
AfterLoop(ps, gw, cache, nMake, prods) ==
    LET n_psr == Len(ps)
        zipLen == Len(prods)
        bad == [k \in 1..zipLen |-> prods[k].err # "none"]
        stop == FirstIn(bad, 1, zipLen)
        N == Arr([k \in 1..n_psr |->
                    IF k <= zipLen THEN prods[k].N ELSE Zero4], n_psr)
        M == Arr([k \in 1..n_psr |->
                    IF k <= zipLen THEN prods[k].M ELSE Zero44], n_psr)
    IN  IF stop <= zipLen
        THEN Failed(prods[stop].err, cache, nMake,
                    nMake + ChoUpTo(prods, stop))
        ELSE IF Len(gw.shape) < 2
        THEN Failed("IndexError", cache, nMake,
                    nMake + ChoUpTo(prods, zipLen))
        ELSE [err |-> "none", fstat |-> SkyLoop(N, M, ps, Columns(gw), 1),
              N |-> N, M |-> M, nMake |-> nMake,
              nCho |-> nMake + ChoUpTo(prods, zipLen), Nmats |-> cache]

\* The loop of lines 66-90 over zip(self.psrs, self.Nmats, ...).
PulsarLoop(ps, pars, cache, f0, brave, lapack) ==
    LET zipLen == Min(Len(ps), Len(cache.list))
    IN  Arr([k \in 1..zipLen |->
                ProductsTable[[psr |-> ps[k], kind |-> pars[k],
                               Nmat |-> cache.list[k], f0 |-> f0,
                               brave |-> brave, lapack |-> lapack]]],
            zipLen)

\* Lines 58-111, where b is what get_Nmats gives if it is called.
AfterGuard(ps, pars, cur, f0, gw, brave, lapack, b) ==
    LET nMake == IF NeedsBuild(cur) THEN b.nMake ELSE 0
        buildFails == NeedsBuild(cur) /\ b.err # "none"
        cache == CacheAfter(cur, b)
    IN  IF buildFails THEN Failed(b.err, cache, nMake, nMake)
        ELSE AfterLoop(ps, gw, cache, nMake,
                       PulsarLoop(ps, pars, cache, f0, brave, lapack))

\* FeStat.compute_Fe(f0, gw_skyloc, brave) on an instance whose cache is
\* cur: the error raised or the fstat returned, the arrays N and M, the
\* make_Nmat calls and Cholesky factorizations made, and self.Nmats after.
compute_Fe(ps, pars, cur, f0, gw, brave, lapack) ==
    AfterGuard(ps, pars, cur, f0, gw, brave, lapack, get_Nmats(ps, pars))

\* ------------------------------------------------------ the state machine
\* call: the compute_Fe call under way ("called") or returned from
\* ("returned": err, fstat, the arrays N and M, and the make_Nmat calls and
\* factorizations it made).
Called(f0, gw, brave) ==
    [phase |-> "called", f0 |-> f0, gw_skyloc |-> gw, brave |-> brave,
     err |-> "none", fstat |-> <<>>, N |-> <<>>, M |-> <<>>,
     nMake |-> 0, nCho |-> 0]

NoCall == [Called(1, Grid(<<>>), FALSE) EXCEPT !.phase = "idle"]

IdleIP == [done |-> FALSE]

\* FeStat.__init__(psrs, params): the state of a fresh instance.
Init ==
    /\ \E n \in 1..MaxPsr, base \in BaseResiduals, at \in 1..MaxPsr,
          dev \in Deviations :
          /\ at <= n
          /\ psrs = [k \in 1..n |->
                       Pulsar(k, IF k = at /\ dev = "short"
                                 THEN ShortResiduals ELSE base)]
          /\ params = [k \in 1..n |->
                         IF k = at /\ dev \in NoiseKinds THEN dev ELSE "diag"]
    /\ Nmats = NoNmats
    /\ call = NoCall
    /\ ip = IdleIP

\* The caller calls compute_Fe(f0, gw_skyloc, brave).
Invoke(f0, gw, brave) ==
    /\ call.phase # "called"
    /\ call' = Called(f0, gw, brave)
    /\ UNCHANGED <<psrs, params, Nmats, ip>>

\* The call ends with r: self.Nmats is as compute_Fe left it, and the
\* caller has the fstat or the error.
Outcome(r) ==
    /\ Nmats' = r.Nmats
    /\ call' = [call EXCEPT !.phase = "returned", !.err = r.err,
                    !.fstat = r.fstat, !.N = r.N, !.M = r.M,
                    !.nMake = r.nMake, !.nCho = r.nCho]

\* compute_Fe runs, to its return or to the error it raises.
ComputeFe(lapack) ==
    /\ call.phase = "called"
    /\ Outcome(compute_Fe(psrs, params, Nmats, call.f0, call.gw_skyloc,
                          call.brave, lapack))
    /\ UNCHANGED <<psrs, params, ip>>

\* LAPACK's way with non-finite input shows only where the factorization
\* is not checked.
LapackFor(brave) == IF brave THEN LapackOutcomes ELSE {"LinAlgError"}

Next ==
    \/ \E f0 \in Freqs, gw \in SkyLocs, brave \in BOOLEAN :
          Invoke(f0, gw, brave)
    \/ \E lapack \in LapackFor(call.brave) : ComputeFe(lapack)

Spec == Init /\ [][Next]_vars

\* ------------------------------------- innerProduct_rr called on its own
\* Vectors over the TOA grid.
RECURSIVE BitVectors(_)
BitVectors(n) ==
    IF n = 0 THEN {<<>>}
    ELSE {Append(v, R(b)) : v \in BitVectors(n - 1), b \in {0, 1}}

\* Noise-weighting matrices: the identity, a symmetric one, and one that
\* is not symmetric.
IPNmats ==
    { Eye(NToa),
      Arr([i \in 1..NToa |->
             Arr([j \in 1..NToa |-> IF i = j THEN R(2) ELSE R(1)], NToa)],
          NToa),
      Arr([i \in 1..NToa |->
             Arr([j \in 1..NToa |-> IF i <= j THEN R(1) ELSE R(0)], NToa)],
          NToa) }

\* Basis matrices: the two-epoch basis, and an offset and a slope.
IPTmats ==
    { Arr([i \in 1..NToa |->
            <<R(IF i = 1 THEN 1 ELSE 0), R(IF i = 2 THEN 1 ELSE 0)>>], NToa),
      Arr([i \in 1..NToa |-> <<R(1), R(i)>>], NToa) }

\* Sigma: symmetric positive definite, not symmetric, not positive
\* definite, and holding a non-finite value.
IPSigmas ==
    { << <<R(2), R(1)>>, <<R(1), R(2)>> >>,
      << <<R(2), R(1)>>, <<R(0), R(2)>> >>,
      << <<R(1), R(2)>>, <<R(2), R(1)>> >>,
      << <<NF, R(0)>>, <<R(0), R(1)>> >> }

NotRun == [err |-> "notrun", ret |-> NF, cho |-> 0]

InitIP ==
    /\ psrs = <<>>
    /\ params = <<>>
    /\ Nmats = NoNmats
    /\ call = NoCall
    /\ \E x \in BitVectors(NToa), y \in BitVectors(NToa), Nmat \in IPNmats,
          Tmat \in IPTmats, Sigma \in IPSigmas, brave \in BOOLEAN :
          ip = [done |-> FALSE, x |-> x, y |-> y, Nmat |-> Nmat,
                Tmat |-> Tmat, Sigma |-> Sigma, brave |-> brave,
                xy |-> NotRun, yx |-> NotRun]

\* innerProduct_rr(x, y, ...) and innerProduct_rr(y, x, ...) are called.
ApplyIP(l1, l2) ==
    /\ ~ip.done
    /\ ip' = [ip EXCEPT !.done = TRUE,
                 !.xy = innerProduct_rr(ip.x, ip.y, ip.Nmat, ip.Tmat,
                                        ip.Sigma, ip.brave, l1),
                 !.yx = innerProduct_rr(ip.y, ip.x, ip.Nmat, ip.Tmat,
                                        ip.Sigma, ip.brave, l2)]
    /\ UNCHANGED <<psrs, params, Nmats, call>>

NextIP ==
    \E l1 \in LapackFor(ip.brave), l2 \in LapackFor(ip.brave) : ApplyIP(l1, l2)

SpecIP == InitIP /\ [][NextIP]_vars

\* ---------------------------------------------------------- the claims
Returned == call.phase = "returned"
ReturnedOk == Returned /\ call.err = "none"
Populated == ~Nmats.isNone

\* A step in which compute_Fe runs.
Ran == call.phase = "called" /\ call'.phase = "returned"

\* The Sigma compute_Fe forms for pulsar k.
SigmaAt(k) == SigmaOf(pta_get_TNT(psrs[k], params[k]), pta_get_phiinv(params[k]))

Mismatched(k) == Len(psrs[k].toas) # Len(psrs[k].residuals)

\* Every pulsar has residuals as long as its TOAs and a finite, positive
\* definite Sigma.
WellFormed ==
    \A k \in 1..Len(psrs) :
        ~Mismatched(k) /\ cho_factor(SigmaAt(k), TRUE, "LinAlgError") = "ok"

\* C1: the Nmat list is built on the first call that needs it, by one
\* make_Nmat call per pulsar, and once self.Nmats is populated no later
\* compute_Fe call calls make_Nmat or replaces self.Nmats.
C1_BuiltOnceThenReused ==
    [][ /\ (Populated => Nmats' = Nmats)
        /\ (Populated /\ Ran) => call'.nMake = 0
        /\ (~Populated /\ ~Nmats'.isNone) =>
              /\ Ran
              /\ call'.nMake = Len(psrs)
              /\ Len(Nmats'.list) = Len(psrs) ]_vars

\* A call made with the cache already populated has returned.
C1_Witness == Populated /\ Returned /\ call.nMake = 0

\* The error of a shape mismatch: the ShapeMismatchError asked for, or the
\* ValueError numpy raises for one.
ShapeMismatchErrors == {"ShapeMismatchError", "ValueError"}

\* C2: with a pulsar whose toas and residuals differ in length, compute_Fe
\* fails with a ShapeMismatchError before any Cholesky factorization is
\* attempted.
C2_MismatchFailsBeforeFactorization ==
    (Returned /\ (\E k \in 1..Len(psrs) : Mismatched(k))) =>
        (call.err \in ShapeMismatchErrors /\ call.nCho = 0)

\* The inner product of x and y with pulsar k's cached Nmat, basis and Sigma.
InnerAt(k, x, y) ==
    innerProduct_rr(x, y, Nmats.list[k], pta_get_basis(psrs[k]), SigmaAt(k),
                    call.brave, "LinAlgError").ret

\* C3: for every pulsar p and every i, j in 0..3, N[p][i] is the inner
\* product of template row A_i with the residuals, and M[p][i][j] that of
\* A_i with A_j.
C3_NandMAreTheInnerProducts ==
    ReturnedOk =>
        \A p \in 1..Len(psrs) :
            LET A == SignalBasis(call.f0, psrs[p].toas)
            IN  /\ \A i \in 1..4 :
                      call.N[p][i] = InnerAt(p, A[i], ResidualVec(psrs[p]))
                /\ \A i, j \in 1..4 : call.M[p][i][j] = InnerAt(p, A[i], A[j])

\* C4: with brave true, non-finite values in a pulsar's Sigma raise no
\* error, on any call.
C4_BraveNeverFailsOnNonFinite ==
    (Returned /\ call.brave
       /\ (\E k \in 1..Len(psrs) : ~FiniteMat(SigmaAt(k)))
       /\ (\A k \in 1..Len(psrs) : ~Mismatched(k))) =>
        call.err = "none"

\* The number of sky locations gw_skyloc holds, in either form.
NLocations(gw) == IF Len(gw.shape) = 1 THEN 1 ELSE gw.shape[2]

\* C5: gw_skyloc is accepted as a [theta, phi] pair and as a 2 x K array,
\* and fstat holds one value per sky location.
C5_OneValuePerSkyLocation ==
    (Returned /\ WellFormed) =>
        (call.err = "none" /\ Len(call.fstat) = NLocations(call.gw_skyloc))

\* What the call just returned from gives when it is made again.
Repeated(lapack) ==
    compute_Fe(psrs, params, Nmats, call.f0, call.gw_skyloc, call.brave,
               lapack)

\* C6: a compute_Fe call leaves the pulsars, params and the caller's
\* gw_skyloc as they were, leaves a populated cache as it was, and the same
\* call made again gives the same outcome and changes nothing.
C6_NoSideEffectsButTheCache ==
    /\ [](Returned =>
            \A lapack \in LapackFor(call.brave) :
                /\ Repeated(lapack).err = call.err
                /\ Repeated(lapack).fstat = call.fstat
                /\ Repeated(lapack).Nmats = Nmats)
    /\ [][Ran => /\ psrs' = psrs
                  /\ params' = params
                  /\ call'.gw_skyloc = call.gw_skyloc
                  /\ (Populated => Nmats' = Nmats)]_vars

\* A call on a populated cache has returned a statistic.
C6_Witness ==
    ReturnedOk /\ call.nMake = 0 /\ Len(call.fstat) > 0

\* The statistic of the single sky position gw_pos, for the call's f0.
AloneAt(gw_pos) ==
    compute_Fe(psrs, params, Nmats, call.f0, Grid(<<gw_pos>>), call.brave,
               "LinAlgError").fstat[1]

\* C7: the value at a sky point depends on that point and f0 alone, not on
\* the other points of the grid nor on their order.
C7_SkyPointsDoNotInteract ==
    ReturnedOk =>
        \A j \in 1..Len(call.fstat) :
            call.fstat[j] = AloneAt(Columns(call.gw_skyloc)[j])

\* A grid of two different points gave two different, non-zero values.
C7_Witness ==
    /\ ReturnedOk
    /\ Len(call.fstat) >= 2
    /\ call.fstat[1] # call.fstat[2]
    /\ ~FeIsZero(call.fstat[1])
    /\ ~FeIsZero(call.fstat[2])

ZeroResiduals(k) == \A i \in 1..Len(psrs[k].residuals) : psrs[k].residuals[i] = 0

\* C8: for a single pulsar whose residuals are all zero, N is zero and
\* compute_Fe returns 0 at every sky position, for every frequency.
C8_ZeroResidualsGiveZero ==
    (ReturnedOk /\ Len(psrs) = 1 /\ ZeroResiduals(1)) =>
        /\ call.N[1] = Zero4
        /\ \A j \in 1..Len(call.fstat) : FeIsZero(call.fstat[j])

\* Such a pulsar got a statistic at two sky positions.
C8_Witness ==
    /\ ReturnedOk /\ Len(psrs) = 1 /\ ZeroResiduals(1)
    /\ Len(call.fstat) >= 2
    /\ call.M[1] # Zero44

====
